---- MODULE Spec2Model ----
(***************************************************************************)
(* Scraper_Uploader: the job scheduler (src/scheduler.py, src/main.py) and *)
(* the filter pipeline (src/wp_upload/filters.py, src/common.py).          *)
(*                                                                         *)
(* Time is counted in whole hours since an epoch that is a Monday 00:00.   *)
(* A Python None is the empty tuple <<>>; an optional value v is <<v>> or  *)
(* a tagged tuple.                                                         *)
(***************************************************************************)
EXTENDS Integers, Sequences, FiniteSets, TLC

VARIABLES
    now,                \* wall clock, datetime.now(), in hours
    pc,                 \* position of the scheduler process (main.py)
    jobs,               \* Scheduler.jobs
    file,               \* scheduler_data.json
    idx,                \* run_pending: index of the job under evaluation
    current_time,       \* run_pending: current_time local (line 117)
    existing_data,      \* save_data: what json.load returned (<<>>: nothing loaded)
    updated_job_list,   \* save_data: updated_job_list local (line 65)
    raised,             \* the exception that ended the process ("none": none)
    starts,             \* how many times the process has been started
    uptime,             \* hours since the process was last started
    inst,               \* two scheduler processes on one state file: each
                        \* one's jobs, position and updated_job_list
    daily,              \* DailyScrapped+<today>.json
    filtered,           \* Filtered Data+<today>.json
    history,            \* Uploaded+<date>.json of the five days before today
    stage,              \* apply_filters: the stage of ordered_filters that
                        \* runs next (0: not running, 11: write_json)
    new_data,           \* apply_filters: the list handed from stage to stage
    di, dj,             \* clean_duplicates: the indexes i and j (1-based)
    rows_to_keep,       \* clean_duplicates: rows_to_keep
    site_rules,         \* clean_duplicates: site_rules
    applied,            \* apply_filters has returned since the last scrape
    ferr,               \* the exception that ended apply_filters ("none")
    fin,                \* one call of a filter function: the list passed
    fop,                \* the function called ("none": not called yet)
    fout,               \* the exception it raised and the list it returned
    lk,                 \* lock_json in each caller: position, attempt, how
                        \* often operation() was run, what the call did
    holder              \* the caller that holds the FileLock (0: nobody)

schedVars == <<now, pc, jobs, file, idx, current_time, existing_data,
               updated_job_list, raised, starts, uptime>>

dedupVars == <<di, dj, rows_to_keep, site_rules>>
filterVars == <<daily, filtered, history, stage, new_data, dedupVars, applied,
                ferr>>

\* single calls: of a filter function, of lock_json
callVars == <<fin, fop, fout, lk, holder>>

vars == <<schedVars, inst, filterVars, callVars>>

\* what the two-process specification leaves alone
oneProcVars == <<pc, jobs, idx, current_time, existing_data, updated_job_list,
                 raised, starts>>

-----------------------------------------------------------------------------
(* Bounds of the model *)

MaxUptime == 2          \* hours a process is followed after its start
MaxStarts == 2          \* process starts followed
MaxJobs == 2            \* do() calls per process start
MaxDaily == 3           \* records in the daily store
MaxBatch == 2           \* records in the list of a single call

(* Program constants *)
HoursPerDay == 24
DaysPerWeek == 7

None == <<>>

-----------------------------------------------------------------------------
(* Utils: the clock *)

\* datetime.weekday(): 0 = Monday
Weekday(t) == (t \div HoursPerDay) % DaysPerWeek

\* the date part of a datetime, as the hour of its midnight
DateOf(t) == (t \div HoursPerDay) * HoursPerDay

\* Utils.get_current_time(): strftime("%H:%M:%S")
get_current_time(t) == <<"HH:MM:SS", t % HoursPerDay>>

\* datetime.strptime(s, "%H:%M"): only a string in that format parses
StrptimeHM(s) ==
    IF Len(s) = 2 /\ s[1] = "HH:MM"
    THEN [ok |-> TRUE, tod |-> s[2]]
    ELSE [ok |-> FALSE, tod |-> 0]

\* datetime.strptime(s, "%H:%M:%S")
StrptimeHMS(s) ==
    IF Len(s) = 2 /\ s[1] = "HH:MM:SS"
    THEN [ok |-> TRUE, tod |-> s[2]]
    ELSE [ok |-> FALSE, tod |-> 0]

\* Python truthiness of an optional string: None and "" are falsy
Truthy(s) == s # None /\ s # <<"">>

-----------------------------------------------------------------------------
(* Job: construction and the builder chain *)

StrType == "<class 'str'>"      \* the builtin type str, not a string value
IntType == "<class 'int'>"      \* the builtin type int

\* isinstance(job_id, str)
IsStr(id) == id # StrType

\* Job.__init__: job_id = str if str else generate_id(); unit = int
JobInit(interval) ==
    [job_id |-> StrType, interval |-> interval, unit |-> IntType,
     at_time |-> None, day_of_week |-> None, last_run |-> None,
     next_run |-> None, job_func |-> None, args |-> <<>>]

Singular == {"second", "minute", "hour", "day", "week"}
\* second -> seconds, ...: the plural property a singular one returns
Plural(p) ==
    CASE p = "second" -> "seconds"
      [] p = "minute" -> "minutes"
      [] p = "hour"   -> "hours"
      [] p = "day"    -> "days"
      [] p = "week"   -> "weeks"
      [] OTHER -> p

\* unit properties that accept any interval
UnitProperty_AnyInterval(job, p) ==
    [ok |-> TRUE, job |-> [job EXCEPT !.unit = Plural(p)]]

\* the unit properties: a singular form raises IntervalError unless interval = 1
UnitProperty(job, p) ==
    IF p \in Singular /\ job.interval # 1
    THEN [ok |-> FALSE, job |-> job]
    ELSE [ok |-> TRUE, job |-> [job EXCEPT !.unit = Plural(p)]]

at(job, time_str) == [job EXCEPT !.at_time = time_str]
on(job, day) == [job EXCEPT !.day_of_week = day]
with_id(job, id) == [job EXCEPT !.job_id = id]

\* A builder chain every(interval).<prop>[.at(a)][.on(d)][.with_id(i)];
\* prop "" is no unit property, <<>> is a method that is not called.
Chain(interval, prop, a, d, i) ==
    [interval |-> interval, prop |-> prop, at |-> a, on |-> d, id |-> i]

Build(c) ==
    LET j0 == JobInit(c.interval)
        u  == IF c.prop = "" THEN [ok |-> TRUE, job |-> j0] ELSE UnitProperty(j0, c.prop)
        j1 == IF c.at = <<>> THEN u.job ELSE at(u.job, c.at[1])
        j2 == IF c.on = <<>> THEN j1 ELSE on(j1, c.on[1])
        j3 == IF c.id = <<>> THEN j2 ELSE with_id(j2, c.id[1])
    IN  [ok |-> u.ok, job |-> j3]

Noon == <<"HH:MM", 12>>

\* The chains the model calls do() on: the two of main.py, two weekly jobs,
\* and the ways a chain can fail.
Chains ==
    { Chain(1, "day",     <<Noon>>,       <<>>, <<"a">>),    \* main.py line 9
      Chain(1, "hour",    <<>>,           <<>>, <<"b">>),    \* main.py line 10
      Chain(1, "week",    <<>>, <<<<"str", "Monday">>>>, <<"b">>),
      Chain(2, "weeks",   <<>>, <<<<"int", 1>>>>, <<"a">>),
      Chain(1, "day",     <<>>,           <<>>, <<"a">>),    \* no at()
      Chain(1, "hour",    <<>>,           <<>>, <<>>),       \* no with_id()
      Chain(0, "hours",   <<>>,           <<>>, <<"a">>),    \* every(0)
      Chain(2, "day",     <<Noon>>,       <<>>, <<"a">>),    \* singular, interval 2
      Chain(1, "day",     <<<<"noon">>>>, <<>>, <<"b">>),    \* at_time not HH:MM
      Chain(1, "minutes", <<>>,           <<>>, <<"a">>),    \* unsupported unit
      Chain(1, "second",  <<>>,           <<>>, <<"b">>),    \* unsupported unit
      Chain(1, "",        <<>>,           <<>>, <<"b">>),    \* no unit property
      Chain(1, "week",    <<>>,           <<>>, <<"a">>),    \* no on()
      Chain(1, "week",    <<>>, <<<<"str", "Funday">>>>, <<"b">>) }

-----------------------------------------------------------------------------
(* Job.calculate_next_run *)

WeekdayNames == <<"monday", "tuesday", "wednesday", "thursday", "friday",
                  "saturday", "sunday">>

\* str.lower() on the day names the model uses
Lower(s) ==
    CASE s = "Monday" -> "monday"
      [] s = "Funday" -> "funday"
      [] OTHER -> s

\* weekdays.index(name): 0-based, <<>> when the name is not in the list
WeekdayIndex(name) ==
    LET hits == {k \in 1..Len(WeekdayNames) : WeekdayNames[k] = name}
    IN  IF hits = {} THEN <<>> ELSE <<(CHOOSE k \in hits : TRUE) - 1>>

Raise == [ok |-> FALSE, next_run |-> None]
Return(t) == [ok |-> TRUE, next_run |-> <<t>>]

CalcDays(job, t) ==
    LET parsed == IF Truthy(job.at_time) THEN StrptimeHM(job.at_time)
                  ELSE StrptimeHM(get_current_time(t))
        first  == DateOf(t) + parsed.tod
    IN  IF ~parsed.ok THEN Raise
        ELSE IF job.last_run = None THEN Return(first)
        ELSE IF t > first THEN Return(first + HoursPerDay * job.interval)
        ELSE Return(first)

\* the weekday name looked up as it is written
CalcWeeks_CaseSensitive(job, t) ==
    LET d  == job.day_of_week
        ix == IF d = None THEN <<>>
              ELSE IF d[1] = "int" THEN <<d[2]>>
              ELSE WeekdayIndex(d[2])
        first == t + ((ix[1] - Weekday(t)) % DaysPerWeek) * HoursPerDay
    IN  IF ix = <<>> THEN Raise
        ELSE IF t > first THEN Return(first + DaysPerWeek * HoursPerDay * job.interval)
        ELSE Return(first)

CalcWeeks(job, t) ==
    LET d  == job.day_of_week
        ix == IF d = None THEN <<>>
              ELSE IF d[1] = "int" THEN <<d[2]>>
              ELSE WeekdayIndex(Lower(d[2]))
        first == t + ((ix[1] - Weekday(t)) % DaysPerWeek) * HoursPerDay
    IN  IF ix = <<>> THEN Raise
        ELSE IF t > first THEN Return(first + DaysPerWeek * HoursPerDay * job.interval)
        ELSE Return(first)

\* a result that is not in the future moved on by interval hours
CalcHours_AddInterval(job, t) ==
    LET first == IF job.last_run = None
                 THEN DateOf(t) + StrptimeHMS(get_current_time(t)).tod + job.interval
                 ELSE job.last_run[1] + job.interval
    IN  IF first <= t THEN Return(first + job.interval) ELSE Return(first)

CalcHours(job, t) ==
    LET first == IF job.last_run = None
                 THEN DateOf(t) + StrptimeHMS(get_current_time(t)).tod + job.interval
                 ELSE job.last_run[1] + job.interval
    IN  IF first <= t THEN Return(first + HoursPerDay) ELSE Return(first)

calculate_next_run(job, t) ==
    CASE job.unit = "days"  -> CalcDays(job, t)
      [] job.unit = "weeks" -> CalcWeeks(job, t)
      [] job.unit = "hours" -> CalcHours(job, t)
      [] OTHER -> Raise

-----------------------------------------------------------------------------
(* Job.to_dict / Job.from_dict and the state file *)

ActionModule == "jobs"
ActionName == "scrape_upload"

\* datetime.isoformat() and datetime.fromisoformat()
isoformat(t) == <<"iso", t>>
fromisoformat(s) == s[2]

to_dict(job) ==
    [id |-> job.job_id,
     interval |-> job.interval,
     unit |-> job.unit,
     at_time |-> IF Truthy(job.at_time) THEN job.at_time ELSE None,
     day_of_week |-> job.day_of_week,
     last_run |-> IF job.last_run # None THEN isoformat(job.last_run[1]) ELSE None,
     next_run |-> IF job.next_run # None THEN isoformat(job.next_run[1]) ELSE None,
     action_module |-> job.job_func[1],
     action_name |-> job.job_func[2],
     args |-> job.args]

\* a from_dict that does not read last_run
from_dict_NoLastRun(data, t) ==
    LET j0 == [JobInit(data.interval) EXCEPT
                   !.job_id = data.id, !.unit = data.unit,
                   !.at_time = data.at_time, !.day_of_week = data.day_of_week,
                   !.next_run = IF data.next_run # None
                                THEN <<fromisoformat(data.next_run)>> ELSE None]
    IN  [ok |-> data.next_run # None,
         job |-> [j0 EXCEPT !.job_func = <<data.action_module, data.action_name>>,
                            !.args = data.args]]

\* from_dict: ok is FALSE when its calculate_next_run raises
from_dict(data, t) ==
    LET j0 == [JobInit(data.interval) EXCEPT
                   !.job_id = data.id, !.unit = data.unit,
                   !.at_time = data.at_time, !.day_of_week = data.day_of_week]
        j1 == IF data.last_run # None
              THEN [j0 EXCEPT !.last_run = <<fromisoformat(data.last_run)>>]
              ELSE j0
        c  == calculate_next_run(j1, t)
        j2 == IF data.next_run # None
              THEN [j1 EXCEPT !.next_run = <<fromisoformat(data.next_run)>>]
              ELSE [j1 EXCEPT !.next_run = c.next_run]
    IN  [ok |-> data.next_run # None \/ c.ok,
         job |-> [j2 EXCEPT !.job_func = <<data.action_module, data.action_name>>,
                            !.args = data.args]]

\* The state file: missing, a well-formed {"jobs": [...]}, unparsable, or
\* cut short by a write that ran out of space.
FileOk(js) == [state |-> "ok", jobs |-> js]
FileMissing == [state |-> "missing", jobs |-> <<>>]
FileTruncated == [state |-> "truncated", jobs |-> <<>>]

\* Job.load_job_data: the first entry with this id, <<>> (None) otherwise
load_job_data(job_id, f) ==
    LET hits == {k \in 1..Len(f.jobs) : f.jobs[k].id = job_id}
    IN  IF f.state # "ok" \/ hits = {} THEN None
        ELSE <<f.jobs[CHOOSE k \in hits : \A m \in hits : k <= m]>>

-----------------------------------------------------------------------------
(* Scheduler.save_data *)

\* A Python dict as a sequence of [k, v] in insertion order: d[k] = v
DictSet(d, k, v) ==
    IF \E i \in 1..Len(d) : d[i].k = k
    THEN [i \in 1..Len(d) |-> IF d[i].k = k THEN [k |-> k, v |-> v] ELSE d[i]]
    ELSE Append(d, [k |-> k, v |-> v])

RECURSIVE DictUpdate(_, _)
DictUpdate(d, items) ==
    IF items = <<>> THEN d
    ELSE DictUpdate(DictSet(d, Head(items).k, Head(items).v), Tail(items))


\* lines 47-58: json.load of the file; <<>> when it is missing or does not parse
ReadExisting(f) == IF f.state = "ok" THEN <<f.jobs>> ELSE None

\* a save that writes the in-memory jobs only
MergeJobs_MemoryOnly(existing, js) == [i \in 1..Len(js) |-> to_dict(js[i])]

\* lines 47-65: existing_jobs_dict updated with every in-memory job's to_dict
MergeJobs(existing, js) ==
    LET existing_jobs_dict ==
            DictUpdate(<<>>, [i \in 1..Len(existing) |->
                                  [k |-> existing[i].id, v |-> existing[i]]])
        updated_jobs_dict ==
            DictUpdate(<<>>, [i \in 1..Len(js) |->
                                  [k |-> js[i].job_id, v |-> to_dict(js[i])]])
    IN  LET d == DictUpdate(existing_jobs_dict, updated_jobs_dict) IN [i \in 1..Len(d) |-> d[i].v]

\* Free disk space at the moment of a check, relative to the two sizes of the
\* payload: required_space is len(json.dumps(...)) (compact, line 67), the file
\* is written with indent=4 (line 75), which is longer.
DiskLevels == {"below_required", "below_written", "enough"}

\* Utils.check_disk_space: free > required_space
check_disk_space(free) == free # "below_required"


\* One turn of the while loop of lines 68-91 with `free` bytes on the disk:
\* the file afterwards and whether the loop was left (break).
WriteAttempt(f, payload, free) ==
    IF check_disk_space(free)
    THEN IF free = "enough"
         THEN [file |-> FileOk(payload), done |-> TRUE]
         ELSE [file |-> FileTruncated, done |-> FALSE]
    ELSE [file |-> f, done |-> FALSE]

-----------------------------------------------------------------------------
(* Job.run and Scheduler.run_pending *)

\* line 120: job.next_run and job.next_run <= current_time
Due(job, t) == job.next_run # None /\ job.next_run[1] <= t

\* Job.run after job_func() returned at time t
\* a run() that sets last_run and leaves next_run as it was
RunResult_KeepNextRun(job, t) ==
    [ok |-> TRUE, job |-> [job EXCEPT !.last_run = <<t>>]]

RunResult(job, t) ==
    LET j1 == [job EXCEPT !.last_run = <<t>>]
        c  == calculate_next_run(j1, t)
    IN  [ok |-> c.ok, job |-> [j1 EXCEPT !.next_run = c.next_run]]

\* how long a job's action takes, in hours
Durations == {0, 1}

JobIds(js) == {js[i].job_id : i \in 1..Len(js)}

-----------------------------------------------------------------------------
(* The scheduler process: main.py *)

StartTimes == {10, 13}       \* Monday 10:00 and Monday 13:00

\* the filter pipeline at rest, nothing scraped yet
FilterIdle ==
    /\ daily = <<>>
    /\ filtered = <<>>
    /\ stage = 0
    /\ new_data = <<>>
    /\ di = 0
    /\ dj = 0
    /\ rows_to_keep = <<>>
    /\ site_rules = {}
    /\ applied = FALSE
    /\ ferr = "none"

\* no single call under way
CallIdle ==
    /\ fin = <<>>
    /\ fop = "none"
    /\ fout = <<>>
    /\ lk = <<>>
    /\ holder = 0

\* no scheduler process
SchedIdle ==
    /\ now = 0
    /\ pc = "none"
    /\ jobs = <<>>
    /\ file = FileMissing
    /\ idx = 0
    /\ current_time = 0
    /\ existing_data = None
    /\ updated_job_list = <<>>
    /\ raised = "none"
    /\ starts = 1
    /\ uptime = 0
    /\ inst = <<>>

SchedInit ==
    /\ now \in StartTimes
    /\ pc = "setup"
    /\ jobs = <<>>
    /\ file = FileMissing
    /\ idx = 0
    /\ current_time = 0
    /\ existing_data = None
    /\ updated_job_list = <<>>
    /\ raised = "none"
    /\ starts = 1
    /\ uptime = 0
    /\ inst = <<>>
    /\ FilterIdle
    /\ CallIdle
    /\ history = <<>>

Die(why) ==
    /\ pc' = "dead"
    /\ raised' = why

\* Job.do at time t with state file f: the exception it raises ("none": it
\* returns) and the job it appends to scheduler.jobs
do(c, t, f) ==
    LET b     == Build(c)
        self0 == [b.job EXCEPT !.job_func = <<ActionModule, ActionName>>,
                               !.args = c.id]
        c1    == calculate_next_run(self0, t)
        self  == [self0 EXCEPT !.next_run = c1.next_run]
        data  == load_job_data(self.job_id, f)
        r     == from_dict(data[1], t)
    IN  IF ~b.ok THEN [raised |-> "IntervalError", job |-> self0]
        ELSE IF ~c1.ok THEN [raised |-> "calculate_next_run", job |-> self0]
        ELSE IF ~IsStr(self.job_id) THEN [raised |-> "job_id", job |-> self]
        ELSE IF data = None THEN [raised |-> "none", job |-> self]
        ELSE IF ~r.ok THEN [raised |-> "from_dict", job |-> self]
        ELSE [raised |-> "none", job |-> r.job]

\* main.py lines 9-10: scheduler.every(...)....do(scrape_upload, ...)
Do(c) ==
    /\ pc = "setup"
    /\ Len(jobs) < MaxJobs
    /\ IF c.id = <<>> THEN TRUE ELSE c.id[1] \notin JobIds(jobs)
    /\ LET r == do(c, now, file)
       IN  IF r.raised = "none"
           THEN jobs' = Append(jobs, r.job) /\ UNCHANGED <<pc, raised>>
           ELSE Die(r.raised) /\ UNCHANGED jobs
    /\ UNCHANGED <<now, file, idx, current_time, existing_data, updated_job_list,
                   starts, uptime>>
    /\ UNCHANGED <<inst, filterVars, callVars>>

\* main.py lines 11-12: the first run_pending(); line 117 reads the clock
StartLoop ==
    /\ pc = "setup"
    /\ pc' = "sweep"
    /\ idx' = 1
    /\ current_time' = now
    /\ UNCHANGED <<now, jobs, file, existing_data, updated_job_list, raised,
                   starts, uptime>>
    /\ UNCHANGED <<inst, filterVars, callVars>>

\* line 120 false: the job is not due
SkipJob ==
    /\ pc = "sweep"
    /\ idx <= Len(jobs)
    /\ ~Due(jobs[idx], current_time)
    /\ idx' = idx + 1
    /\ UNCHANGED <<now, pc, jobs, file, current_time, existing_data,
                   updated_job_list, raised, starts, uptime>>
    /\ UNCHANGED <<inst, filterVars, callVars>>

\* lines 120-125: the job is due, its action raises: nothing catches it
RunJobRaises ==
    /\ pc = "sweep"
    /\ idx <= Len(jobs)
    /\ Due(jobs[idx], current_time)
    /\ Die("job_func")
    /\ UNCHANGED <<now, jobs, file, idx, current_time, existing_data,
                   updated_job_list, starts, uptime>>
    /\ UNCHANGED <<inst, filterVars, callVars>>

\* lines 120-125: the job is due, its action returns after d hours, run()
\* updates the job and save_data() reads, merges and tries to write
RunJob(d, free) ==
    /\ pc = "sweep"
    /\ idx <= Len(jobs)
    /\ Due(jobs[idx], current_time)
    /\ uptime + d <= MaxUptime
    /\ now' = now + d
    /\ uptime' = uptime + d
    /\ LET r  == RunResult(jobs[idx], now + d)
           js == [jobs EXCEPT ![idx] = r.job]
           ex == ReadExisting(file)
           payload == MergeJobs(IF ex = None THEN <<>> ELSE ex[1], js)
           w  == WriteAttempt(file, payload, free)
       IN  IF ~r.ok
           THEN Die("calculate_next_run")
                /\ UNCHANGED <<jobs, file, existing_data, updated_job_list>>
           ELSE /\ jobs' = js
                /\ existing_data' = ex
                /\ updated_job_list' = payload
                /\ file' = w.file
                /\ pc' = IF w.done THEN "saved" ELSE "popup"
                /\ UNCHANGED raised
    /\ UNCHANGED <<idx, current_time, starts>>
    /\ UNCHANGED <<inst, filterVars, callVars>>

\* Popups.space_error_popup returns (the operator clicked Retry): the while
\* loop of save_data takes another turn
Retry(free) ==
    /\ pc = "popup"
    /\ LET w == WriteAttempt(file, updated_job_list, free)
       IN  /\ file' = w.file
           /\ pc' = IF w.done THEN "saved" ELSE "popup"
    /\ UNCHANGED <<now, jobs, idx, current_time, existing_data,
                   updated_job_list, raised, starts, uptime>>
    /\ UNCHANGED <<inst, filterVars, callVars>>

\* save_data returned: the for loop of run_pending goes on to the next job
NextJob ==
    /\ pc = "saved"
    /\ pc' = "sweep"
    /\ idx' = idx + 1
    /\ existing_data' = None
    /\ updated_job_list' = <<>>
    /\ UNCHANGED <<now, jobs, file, current_time, raised, starts, uptime>>
    /\ UNCHANGED <<inst, filterVars, callVars>>

\* run_pending returns, main.py line 13 sleeps
EndSweep ==
    /\ pc = "sweep"
    /\ idx > Len(jobs)
    /\ pc' = "sleep"
    /\ idx' = 0
    /\ UNCHANGED <<now, jobs, file, current_time, existing_data,
                   updated_job_list, raised, starts, uptime>>
    /\ UNCHANGED <<inst, filterVars, callVars>>

\* time.sleep(5) is over and run_pending() starts again: the clock may have
\* moved to the next hour
Wake(dt) ==
    /\ pc = "sleep"
    /\ uptime + dt <= MaxUptime
    /\ now' = now + dt
    /\ uptime' = uptime + dt
    /\ pc' = "sweep"
    /\ idx' = 1
    /\ current_time' = now + dt
    /\ UNCHANGED <<jobs, file, existing_data, updated_job_list, raised,
                   starts>>
    /\ UNCHANGED <<inst, filterVars, callVars>>

\* hours the machine stays off before the process is started again
DownTimes == {24}

\* The process is started again (after it died, or was stopped while asleep
\* or while blocked in the popup): memory is lost, the state file stays.
Restart(down) ==
    /\ pc \in {"dead", "sleep", "popup"}
    /\ starts < MaxStarts
    /\ starts' = starts + 1
    /\ uptime' = 0
    /\ now' = now + down
    /\ pc' = "setup"
    /\ jobs' = <<>>
    /\ idx' = 0
    /\ current_time' = 0
    /\ existing_data' = None
    /\ updated_job_list' = <<>>
    /\ raised' = "none"
    /\ UNCHANGED file
    /\ UNCHANGED <<inst, filterVars, callVars>>

SchedNext ==
    \/ \E c \in Chains : Do(c)
    \/ StartLoop
    \/ SkipJob
    \/ RunJobRaises
    \/ \E d \in Durations, free \in DiskLevels : RunJob(d, free)
    \/ \E free \in DiskLevels : Retry(free)
    \/ NextJob
    \/ EndSweep
    \/ \E dt \in {0, 1} : Wake(dt)
    \/ \E down \in DownTimes : Restart(down)

-----------------------------------------------------------------------------
(* Two scheduler processes sharing scheduler_data.json.  save_data takes no  *)
(* lock (lines 41-91), so between one process's json.load (lines 47-58) and  *)
(* its open(..., 'w') (line 71) the other process may read or write the file.*)

Instances == {1, 2}

\* the job each process registers: different ids
InstanceChain(p) ==
    IF p = 1 THEN Chain(1, "day", <<Noon>>, <<>>, <<"a">>)
    ELSE Chain(1, "hour", <<>>, <<>>, <<"b">>)

ConcInit ==
    /\ now \in StartTimes
    /\ uptime = 0
    /\ file = FileMissing
    /\ inst = [p \in Instances |->
                  [jobs |-> <<>>, pc |-> "setup", updated_job_list |-> <<>>]]
    /\ pc = "two"
    /\ jobs = <<>>
    /\ idx = 0
    /\ current_time = 0
    /\ existing_data = None
    /\ updated_job_list = <<>>
    /\ raised = "none"
    /\ starts = 1
    /\ FilterIdle
    /\ CallIdle
    /\ history = <<>>

\* main.py lines 9-12 in process p: do() registers the job, the loop starts
ConcDo(p) ==
    /\ inst[p].pc = "setup"
    /\ LET r == do(InstanceChain(p), now, file)
       IN  /\ r.raised = "none"
           /\ inst' = [inst EXCEPT ![p].jobs = <<r.job>>, ![p].pc = "idle"]
    /\ UNCHANGED <<now, uptime, file>>
    /\ UNCHANGED <<oneProcVars, filterVars, callVars>>

\* run_pending in process p finds its job due, run() updates it and
\* save_data reads the file and merges (lines 47-65)
ConcRunAndRead(p) ==
    /\ inst[p].pc = "idle"
    /\ Due(inst[p].jobs[1], now)
    /\ LET r  == RunResult(inst[p].jobs[1], now)
           ex == ReadExisting(file)
       IN  /\ r.ok
           /\ inst' = [inst EXCEPT
                         ![p].jobs = <<r.job>>,
                         ![p].pc = "write",
                         ![p].updated_job_list =
                             MergeJobs(IF ex = None THEN <<>> ELSE ex[1],
                                       <<r.job>>)]
    /\ UNCHANGED <<now, uptime, file>>
    /\ UNCHANGED <<oneProcVars, filterVars, callVars>>

\* save_data in process p writes its updated_job_list (lines 68-76); the
\* disk has room
ConcWrite(p) ==
    /\ inst[p].pc = "write"
    /\ file' = WriteAttempt(file, inst[p].updated_job_list, "enough").file
    /\ inst' = [inst EXCEPT ![p].pc = "idle", ![p].updated_job_list = <<>>]
    /\ UNCHANGED <<now, uptime>>
    /\ UNCHANGED <<oneProcVars, filterVars, callVars>>

\* an hour passes
ConcTick ==
    /\ uptime < MaxUptime
    /\ now' = now + 1
    /\ uptime' = uptime + 1
    /\ UNCHANGED <<file, inst>>
    /\ UNCHANGED <<oneProcVars, filterVars, callVars>>

-----------------------------------------------------------------------------
(* Strings of the filter pipeline.  A str is a sequence of one-character    *)
(* strings; an optional str is <<>> (None) or <<s>>.  The characters that  *)
(* are not ASCII are named: "rsquo" is the right single quote, "emdash"    *)
(* the em dash, "lenti" and "rlenti" the lenticular brackets.              *)


\* int(round(n / d)): Python 3 rounds halves to the even neighbour
RoundDiv(n, d) ==
    LET q == n \div d
        r == n % d
    IN  IF 2 * r > d THEN q + 1
        ELSE IF 2 * r < d THEN q
        ELSE IF q % 2 = 0 THEN q ELSE q + 1

\* difflib.SequenceMatcher.get_matching_blocks: the longest common block
\* (earliest in a, then earliest in b), then the same left and right of it
RECURSIVE MatchingChars(_, _)
MatchingChars(a, b) ==
    IF a = <<>> \/ b = <<>> THEN 0
    ELSE LET blocks == {x \in (1..Len(a)) \X (1..Len(b)) \X (1..(IF Len(a) < Len(b) THEN Len(a) ELSE Len(b))) :
                           /\ x[1] + x[3] - 1 <= Len(a)
                           /\ x[2] + x[3] - 1 <= Len(b)
                           /\ SubSeq(a, x[1], x[1] + x[3] - 1)
                                = SubSeq(b, x[2], x[2] + x[3] - 1)}
         IN  IF blocks = {} THEN 0
             ELSE LET best == CHOOSE x \in blocks : \A y \in blocks :
                                  \/ x[3] > y[3]
                                  \/ /\ x[3] = y[3]
                                     /\ \/ x[1] < y[1]
                                        \/ x[1] = y[1] /\ x[2] <= y[2]
                  IN  best[3]
                      + MatchingChars(SubSeq(a, 1, best[1] - 1),
                                      SubSeq(b, 1, best[2] - 1))
                      + MatchingChars(SubSeq(a, best[1] + best[3], Len(a)),
                                      SubSeq(b, best[2] + best[3], Len(b)))

\* fuzz.ratio with its decorators, outermost first: check_for_none,
\* check_for_equivalence, check_empty_string
Ratio(s1, s2) ==
    IF s1 = None \/ s2 = None THEN 0
    ELSE IF s1 = s2 THEN 100
    ELSE IF s1[1] = <<>> \/ s2[1] = <<>> THEN 0
    ELSE RoundDiv(200 * MatchingChars(s1[1], s2[1]), Len(s1[1]) + Len(s2[1]))

\* str.lower() on one character
LowerChar(c) ==
    CASE c = "J" -> "j"
      [] c = "K" -> "k"
      [] c = "W" -> "w"
      [] c = "S" -> "s"
      [] c = "N" -> "n"
      [] c = "O" -> "o"
      [] c = "R" -> "r"
      [] c = "D" -> "d"
      [] OTHER -> c

lower(s) == [i \in 1..Len(s) |-> LowerChar(s[i])]

\* the regular expression class \w
WordChars == {"a", "b", "d", "e", "f", "h", "i", "j", "k", "m", "n", "o", "r",
              "s", "t", "w", "x", "J", "K", "W", "S", "N", "O", "R", "D",
              "1", "2", "3", "4"}

\* the regular expression class \s
IsSpace(c) == c = " "

\* s starts with sub at position p
StartsAt(s, sub, p) ==
    /\ p + Len(sub) - 1 <= Len(s)
    /\ SubSeq(s, p, p + Len(sub) - 1) = sub

\* sub in s
Contains(s, sub) == \E p \in 1..(Len(s) + 1) : StartsAt(s, sub, p)

\* re.search(r'\b' + re.escape(word) + r'\b', s)
WordBoundary(s, p) ==
    LET before == p > 1 /\ s[p - 1] \in WordChars
        after  == p <= Len(s) /\ s[p] \in WordChars
    IN  before # after

\* a search that ignores what stands around the word
SearchWord_Anywhere(s, word) == \E p \in 1..Len(s) : StartsAt(s, word, p)

SearchWord(s, word) ==
    \E p \in 1..Len(s) :
        /\ StartsAt(s, word, p)
        /\ WordBoundary(s, p)
        /\ WordBoundary(s, p + Len(word))

\* str.replace(old, new) for a non-empty old: left to right, no overlap
RECURSIVE Replace(_, _, _)
Replace(s, old, new) ==
    IF s = <<>> THEN <<>>
    ELSE IF StartsAt(s, old, 1)
         THEN new \o Replace(SubSeq(s, Len(old) + 1, Len(s)), old, new)
         ELSE <<Head(s)>> \o Replace(Tail(s), old, new)

\* re.sub(r'\s+', ' ', s)
RECURSIVE CollapseSpaces(_)
CollapseSpaces(s) ==
    IF s = <<>> THEN <<>>
    ELSE IF IsSpace(Head(s))
         THEN IF Len(s) > 1 /\ IsSpace(s[2])
              THEN CollapseSpaces(Tail(s))
              ELSE <<" ">> \o CollapseSpaces(Tail(s))
         ELSE <<Head(s)>> \o CollapseSpaces(Tail(s))

\* str.strip()
RECURSIVE strip(_)
strip(s) ==
    IF s = <<>> THEN <<>>
    ELSE IF IsSpace(Head(s)) THEN strip(Tail(s))
    ELSE IF IsSpace(s[Len(s)]) THEN strip(SubSeq(s, 1, Len(s) - 1))
    ELSE s

\* str.split(sep): the list of parts
RECURSIVE SplitFrom(_, _, _)
SplitFrom(s, sep, part) ==
    IF s = <<>> THEN <<part>>
    ELSE IF StartsAt(s, sep, 1)
         THEN <<part>> \o SplitFrom(SubSeq(s, Len(sep) + 1, Len(s)), sep, <<>>)
         ELSE SplitFrom(Tail(s), sep, Append(part, Head(s)))

split(s, sep) == SplitFrom(s, sep, <<>>)

\* sep.join(parts)
RECURSIVE join(_, _)
join(sep, parts) ==
    IF parts = <<>> THEN <<>>
    ELSE IF Len(parts) = 1 THEN parts[1]
    ELSE parts[1] \o sep \o join(sep, Tail(parts))

-----------------------------------------------------------------------------
(* Records of the stores.  The fields stand for the keys 'Site', 'Date',    *)
(* 'Title', 'Models', 'Link for video', 'Path image' and 'Link for promo'. *)
(* A Date is <<"date", d>> (a '%b %d, %Y' string for day d), <<"text">>    *)
(* (a string that does not parse), <<"">> or None.  Promo is <<"absent">>  *)
(* while the record has no such key.                                       *)

Today == 10

Rec(site, date, title, models, link, image) ==
    [Site |-> site, Date |-> date, Title |-> title, Models |-> models,
     Link |-> link, Image |-> image, Promo |-> <<"absent">>]


T_foo    == <<"f", "o", "o">>
T_bar    == <<"b", "a", "r">>
T_banned == <<"W", "o", "r", "d", "1", " ", "x">>
T_sym    == <<"J", "o", " ", "-", " ", "b", "+">>
T_kim    == <<"K", "i", "m">>
T_near   == <<"f", "o", "o", "b", "a", "r">>
T_fobar  == <<"f", "o", "b", "a", "r">>
M_jo     == <<"J", "o", ",", " ", "K", ".">>

\* the records the scrapers may deliver
Pool ==
    { Rec(<<"site1">>, <<"date", Today>>, <<T_foo>>, <<M_jo>>, <<"l1">>, <<"img">>),
      Rec(<<"site3">>, <<"date", Today - 2>>, <<T_foo>>, None, <<"l2">>, <<"img">>),
      Rec(<<"site2">>, <<"date", Today>>, <<T_foo>>, None, <<"l3">>, <<"img">>),
      Rec(<<"site3">>, <<"date", Today - 1>>, <<T_foo>>, None, None, <<"img">>),
      Rec(<<"site1">>, <<"date", Today>>, None, None, <<"l1">>, <<"img">>),
      Rec(<<"site2">>, <<"date", Today>>, <<T_bar>>, None, <<"l6">>, None),
      Rec(<<"site4">>, <<"date", Today - 4>>, <<T_bar>>, None, <<"l8">>, <<"img">>),
      Rec(<<"site1">>, <<"date", Today - 3>>, <<T_sym>>, <<M_jo>>, None, <<"img">>),
      Rec(<<"Site4">>, <<"date", Today - 1>>, <<T_near>>, None, <<"l10">>, <<"img">>) }

\* str(site) for the sites of the model
SiteChars(site) ==
    CASE site = None -> <<"N", "o", "n", "e">>
      [] site = <<"site1">> -> <<"s", "i", "t", "e", "1">>
      [] site = <<"site2">> -> <<"s", "i", "t", "e", "2">>
      [] site = <<"site3">> -> <<"s", "i", "t", "e", "3">>
      [] site = <<"site4">> -> <<"s", "i", "t", "e", "4">>
      [] site = <<"Site4">> -> <<"S", "i", "t", "e", "4">>

\* jsons/models_filter.json, flattened in the order the two loops of
\* model_in_title and model_in_models walk it: site, model_key, model_value
ModelsFilter ==
    << [site |-> <<"site1">>, key |-> <<"J", "o">>, value |-> <<"J", "o", "e">>] >>

\* jsons/promo_links.json with its keys lower-cased (links_lower)
PromoLinks == << [site |-> <<"s", "i", "t", "e", "1">>, link |-> "promo1"],
                 [site |-> <<"S", "i", "t", "e", "4">>, link |-> "promo4"] >>

\* the lookup with the keys of the table taken as they are written
load_promo_link_ExactKey(site) ==
    LET hits == {k \in 1..Len(PromoLinks) : PromoLinks[k].site = lower(site)}
    IN  IF hits = {} THEN None
        ELSE <<"url", PromoLinks[CHOOSE k \in hits : TRUE].link>>

\* Jsons.load_promo_link(site): links_lower lower-cases the keys of the table,
\* site_lower the site; None when the site has no entry
load_promo_link(site) ==
    LET hits == {k \in 1..Len(PromoLinks) : lower(PromoLinks[k].site) = lower(site)}
    IN  IF hits = {} THEN None
        ELSE <<"url", PromoLinks[CHOOSE k \in hits : TRUE].link>>

Map(f(_), s) == [i \in 1..Len(s) |-> f(s[i])]

-----------------------------------------------------------------------------
(* The ten stages of Filters.ordered_filters *)

\* 1. TitleFilters.clean_empty_titles
clean_empty_titles(data) == SelectSeq(data, LAMBDA r : r.Title # None)

\* 2. ImageFilters.clean_empty_image
clean_empty_image(data) == SelectSeq(data, LAMBDA r : r.Image # None)

\* 3. TitleFilters.clean_duplicates, one comparison at a time
SiteRules == { [pair |-> <<<<"site1">>, <<"site2">>>>, drop |-> <<"site1">>],
               [pair |-> <<<<"site3">>, <<"site4">>>>, drop |-> <<"site3">>] }

DuplicateRatio == 99

HasRule(rules, a, b) == \E e \in rules : e.pair = <<a, b>>

\* site_rules.get((a, b), default)
RuleGet(rules, a, b, default) ==
    IF HasRule(rules, a, b)
    THEN (CHOOSE e \in rules : e.pair = <<a, b>>).drop
    ELSE default

\* a rule that names the first record's site
LearnedRule_FirstSite(site_i, site_j) ==
    [pair |-> <<site_i, site_j>>, drop |-> site_i]

\* line 402: the rule learned for a pair that has none
LearnedRule(site_i, site_j) == [pair |-> <<site_i, site_j>>, drop |-> site_j]

\* a comparison that drops a record only when the pair of sites has a rule
Compare_RuledOnly(data, i, j, keep, rules) ==
    LET site_i == data[i].Site
        site_j == data[j].Site
        site_to_drop == RuleGet(rules, site_i, site_j, RuleGet(rules, site_j, site_i, None))
    IN  IF Ratio(data[i].Title, data[j].Title) >= DuplicateRatio
        THEN [keep |-> IF site_to_drop = None THEN keep
                       ELSE IF site_to_drop = site_i THEN [keep EXCEPT ![i] = FALSE]
                       ELSE [keep EXCEPT ![j] = FALSE],
              rules |-> IF site_to_drop = None
                        THEN rules \cup {LearnedRule(site_i, site_j)}
                        ELSE rules]
        ELSE [keep |-> keep, rules |-> rules]

\* a comparison that reads the site a rule names as the one to keep
Compare_RuleKeeps(data, i, j, keep, rules) ==
    LET site_i == data[i].Site
        site_j == data[j].Site
        site_to_keep == RuleGet(rules, site_i, site_j, RuleGet(rules, site_j, site_i, None))
    IN  IF Ratio(data[i].Title, data[j].Title) >= DuplicateRatio
        THEN [keep |-> IF site_to_keep = None \/ site_to_keep = site_i
                       THEN [keep EXCEPT ![j] = FALSE]
                       ELSE [keep EXCEPT ![i] = FALSE],
              rules |-> IF site_to_keep = None
                        THEN rules \cup {LearnedRule(site_i, site_j)}
                        ELSE rules]
        ELSE [keep |-> keep, rules |-> rules]

\* lines 389-402 for the records at i and j: rows_to_keep and site_rules after
Compare(data, i, j, keep, rules) ==
    LET site_i == data[i].Site
        site_j == data[j].Site
    IN  IF Ratio(data[i].Title, data[j].Title) >= DuplicateRatio
        THEN IF HasRule(rules, site_i, site_j) \/ HasRule(rules, site_j, site_i)
             THEN LET site_to_drop == RuleGet(rules, site_i, site_j,
                                              RuleGet(rules, site_j, site_i, None))
                  IN  [keep |-> IF site_to_drop = site_i
                                THEN [keep EXCEPT ![i] = FALSE]
                                ELSE IF site_to_drop = site_j
                                     THEN [keep EXCEPT ![j] = FALSE]
                                     ELSE keep,
                       rules |-> rules]
             ELSE [keep |-> [keep EXCEPT ![j] = FALSE],
                   rules |-> rules \cup {LearnedRule(site_i, site_j)}]
        ELSE [keep |-> keep, rules |-> rules]

\* line 404: the records whose flag is still set
Kept(data, keep) ==
    LET F[k \in 0..Len(data)] ==
            IF k = 0 THEN <<>>
            ELSE IF keep[k] THEN Append(F[k - 1], data[k]) ELSE F[k - 1]
    IN  F[Len(data)]

\* 4. TitleFilters.containing_words (titles are not None after stage 1)
FilterWords == { <<"w", "o", "r", "d", "1">>,
                 <<"w", "o", "r", "d", " ", "w", "i", "t", "h", " ",
                   "w", "o", "r", "d", "1">>,
                 <<"w", "o", "r", "d", "2">> }

containing_words(data) ==
    SelectSeq(data, LAMBDA r :
        ~\E word \in FilterWords : SearchWord(lower(r.Title[1]), word))

\* 5. TitleFilters.replace_symb_title
RECURSIVE RemoveAll(_, _)
RemoveAll(s, symbols) ==
    IF symbols = <<>> THEN s
    ELSE RemoveAll(Replace(s, <<Head(symbols)>>, <<>>), Tail(symbols))


CleanTitle(title) ==
    LET t1 == RemoveAll(title, <<"-", "|", ":", ",", ".", ")", "(", "#">>)
        t2 == Replace(t1, <<"rsquo">>, <<"'">>)
        t3 == Replace(Replace(t2, <<"&">>, <<"a", "n", "d">>), <<"+">>, <<"a", "n", "d">>)
        t4 == RemoveAll(t3, <<"emdash", "?", "rlenti", "lenti">>)
        t5 == Replace(t4, <<" ", " ">>, <<" ">>)
    IN  strip(CollapseSpaces(t5))

ReplaceSymb(r) ==
    IF r.Title # None THEN [r EXCEPT !.Title = <<CleanTitle(r.Title[1])>>] ELSE r

replace_symb_title(data) == Map(ReplaceSymb, data)

\* 6. TitleFilters.model_in_title (titles are not None after stage 1)
TitleRule(e, r) ==
    IF r.Site = e.site /\ Contains(r.Title[1], e.key)
    THEN [r EXCEPT !.Title = <<Replace(r.Title[1], e.key, e.value)>>]
    ELSE r

RECURSIVE ApplyTitleRules(_, _)
ApplyTitleRules(entries, data) ==
    IF entries = <<>> THEN data
    ELSE ApplyTitleRules(Tail(entries),
                         [i \in 1..Len(data) |-> TitleRule(Head(entries), data[i])])

model_in_title(data) == ApplyTitleRules(ModelsFilter, data)


ModelsRule(e, r) ==
    IF r.Site = e.site /\ r.Models # None
    THEN LET names == split(r.Models[1], <<",", " ">>)
             updated_models == [i \in 1..Len(names) |-> IF strip(names[i]) = e.key THEN e.value ELSE names[i]]
         IN  [r EXCEPT !.Models = <<join(<<",", " ">>, updated_models)>>]
    ELSE r

\* 7. ModelsFilters.model_in_models
RECURSIVE ApplyModelsRules(_, _)
ApplyModelsRules(entries, data) ==
    IF entries = <<>> THEN data
    ELSE ApplyModelsRules(Tail(entries),
                          [i \in 1..Len(data) |-> ModelsRule(Head(entries), data[i])])

\* lines 229-231: .replace('.', '').strip()
DropDots(r) ==
    IF r.Models # None
    THEN [r EXCEPT !.Models = <<strip(Replace(r.Models[1], <<".">>, <<>>))>>]
    ELSE r

model_in_models(data) == Map(DropDots, ApplyModelsRules(ModelsFilter, data))



\* 8. TitleFilters.title_equal_models
TitleEqualModels(r) ==
    IF r.Title # None /\ r.Title[1] # <<>> /\ r.Title = r.Models
    THEN [r EXCEPT !.Title = <<r.Title[1] \o <<" ", "i", "s", " ", "a", "t", " ">> \o SiteChars(r.Site)>>]
    ELSE r

title_equal_models(data) == Map(TitleEqualModels, data)

\* 9. DateFilters.clean_older_than_3_days
HistoryDays == 5
MaxAgeDays == 3
UploadedRatio == 90


\* lines 124-135: the parsed Date, <<>> when there is none or it does not parse
DateObj(date) == IF date # None /\ date[1] = "date" THEN <<date[2]>> ELSE None

\* lines 137-140
TooOld(r, today) ==
    DateObj(r.Date) # None /\ DateObj(r.Date)[1] < today - MaxAgeDays

\* lines 146-157 over the files that can be read
SimilarUploaded(r, hist) ==
    \E f \in 1..HistoryDays : \E k \in 1..Len(hist[f].titles) :
        Ratio(r.Title, hist[f].titles[k]) >= UploadedRatio

\* Jsons.read_json: what open() or json.load raises on the file
ReadError(f) ==
    CASE f.state = "missing" -> "FileNotFoundError"
      [] f.state = "empty" -> "JSONDecodeError"
      [] OTHER -> "none"

\* the first file, from yesterday backwards, that cannot be read
FirstReadError(hist) ==
    LET bad == {f \in 1..HistoryDays : ReadError(hist[f]) # "none"}
    IN  IF bad = {} THEN "none"
        ELSE ReadError(hist[CHOOSE f \in bad : \A g \in bad : f <= g])

\* the exception that ends the call ("none": it returns) and the list returned
clean_older_than_3_days(data, hist, today) ==
    IF /\ \E i \in 1..Len(data) : ~TooOld(data[i], today)
       /\ FirstReadError(hist) # "none"
    THEN [raised |-> FirstReadError(hist), data |-> <<>>]
    ELSE [raised |-> "none",
          data |-> SelectSeq(data, LAMBDA r :
                       ~TooOld(r, today) /\ ~SimilarUploaded(r, hist))]

\* 10. PromoLinks.set_promo_links
SetPromo(r) ==
    LET site == lower(SiteChars(r.Site))
    IN  [r EXCEPT !.Promo = load_promo_link(site)]

set_promo_links(data) == Map(SetPromo, data)

-----------------------------------------------------------------------------
(* Jsons.write_json and Filters.apply_filters *)

\* lines 681-690: the record of the store that new_record replaces (0: none)
MatchIndex(store, new_record) ==
    LET hit(k) == IF store[k].Link # None
                  THEN store[k].Link = new_record.Link
                  ELSE store[k].Title = new_record.Title
        hits == {k \in 1..Len(store) : hit(k)}
    IN  IF hits = {} THEN 0 ELSE CHOOSE k \in hits : \A m \in hits : k <= m

Upsert(store, new_record) ==
    LET k == MatchIndex(store, new_record)
    IN  IF k = 0 THEN <<new_record>> \o store
        ELSE [store EXCEPT ![k] = new_record]

RECURSIVE write_json(_, _)
write_json(new_records, store) ==
    IF new_records = <<>> THEN store
    ELSE write_json(Tail(new_records), Upsert(store, Head(new_records)))

\* lines 66-68: the daily records whose link is not in the filtered store
NewData(daily_scrapped, filtered_store) ==
    LET filtered_titles == {filtered_store[k].Link : k \in 1..Len(filtered_store)}
    IN  SelectSeq(daily_scrapped, LAMBDA item : item.Link \notin filtered_titles)

-----------------------------------------------------------------------------
(* The filter pipeline as it runs: scraping writes today's daily store,     *)
(* apply_filters walks the stages of ordered_filters over the new records   *)
(* and writes today's filtered store.                                       *)

\* the upload-history files of yesterday .. five days ago; an
\* Uploaded+<date>.json file is its state and the 'Title' of each record
AllPresent == [f \in 1..HistoryDays |->
                  IF f = 2 THEN [state |-> "ok", titles |-> << <<T_fobar>>, None >>] ELSE [state |-> "ok", titles |-> <<>>]]
Histories == { AllPresent,
               [AllPresent EXCEPT ![1] = [state |-> "missing", titles |-> <<>>]],
               [AllPresent EXCEPT ![3] = [state |-> "empty", titles |-> <<>>]] }

FilterInit ==
    /\ FilterIdle
    /\ CallIdle
    /\ history \in Histories
    /\ SchedIdle

\* Utils.save_scraped_data for one scraped record: write_json(new_data, 'daily')
Scrape(r) ==
    /\ stage = 0
    /\ Len(daily) < MaxDaily
    /\ \A k \in 1..Len(daily) : daily[k] # r
    /\ daily' = write_json(<<r>>, daily)
    /\ applied' = FALSE
    /\ UNCHANGED <<filtered, history, stage, new_data, dedupVars, ferr>>
    /\ UNCHANGED <<schedVars, inst, callVars>>

\* apply_filters lines 63-70: with nothing new the call returns at once
ApplyFilters ==
    /\ stage = 0
    /\ ferr' = "none"
    /\ IF NewData(daily, filtered) = <<>>
       THEN applied' = TRUE /\ UNCHANGED <<stage, new_data>>
       ELSE /\ new_data' = NewData(daily, filtered)
            /\ stage' = 1
            /\ UNCHANGED applied
    /\ UNCHANGED <<daily, filtered, history, dedupVars>>
    /\ UNCHANGED <<schedVars, inst, callVars>>

\* what a stage that maps the list leaves alone
stageFrame == <<daily, filtered, history, dedupVars, applied, ferr, schedVars,
                inst, callVars>>

CleanEmptyTitles ==
    /\ stage = 1
    /\ new_data' = clean_empty_titles(new_data)
    /\ stage' = 2
    /\ UNCHANGED stageFrame

CleanEmptyImage ==
    /\ stage = 2
    /\ new_data' = clean_empty_image(new_data)
    /\ stage' = 3
    /\ UNCHANGED stageFrame

\* clean_duplicates lines 378-382: rows_to_keep and site_rules are created
DupEnter ==
    /\ stage = 3
    /\ di = 0
    /\ di' = 1
    /\ dj' = 2
    /\ rows_to_keep' = [k \in 1..Len(new_data) |-> TRUE]
    /\ site_rules' = SiteRules
    /\ UNCHANGED <<daily, filtered, history, stage, new_data, applied, ferr>>
    /\ UNCHANGED <<schedVars, inst, callVars>>

\* lines 384-402: one turn of the inner loop
DupCompare ==
    /\ stage = 3
    /\ di >= 1
    /\ dj <= Len(new_data)
    /\ LET c == Compare(new_data, di, dj, rows_to_keep, site_rules)
       IN  /\ rows_to_keep' = c.keep
           /\ site_rules' = c.rules
    /\ IF dj < Len(new_data)
       THEN dj' = dj + 1 /\ UNCHANGED di
       ELSE di' = di + 1 /\ dj' = di + 2
    /\ UNCHANGED <<daily, filtered, history, stage, new_data, applied, ferr>>
    /\ UNCHANGED <<schedVars, inst, callVars>>

\* lines 404-406: the loops are over, the kept records are returned
DupReturn ==
    /\ stage = 3
    /\ di >= 1
    /\ dj > Len(new_data)
    /\ new_data' = Kept(new_data, rows_to_keep)
    /\ stage' = 4
    /\ di' = 0
    /\ dj' = 0
    /\ rows_to_keep' = <<>>
    /\ site_rules' = {}
    /\ UNCHANGED <<daily, filtered, history, applied, ferr>>
    /\ UNCHANGED <<schedVars, inst, callVars>>

ContainingWords ==
    /\ stage = 4
    /\ new_data' = containing_words(new_data)
    /\ stage' = 5
    /\ UNCHANGED stageFrame

ReplaceSymbTitle ==
    /\ stage = 5
    /\ new_data' = replace_symb_title(new_data)
    /\ stage' = 6
    /\ UNCHANGED stageFrame

ModelInTitle ==
    /\ stage = 6
    /\ new_data' = model_in_title(new_data)
    /\ stage' = 7
    /\ UNCHANGED stageFrame

ModelInModels ==
    /\ stage = 7
    /\ new_data' = model_in_models(new_data)
    /\ stage' = 8
    /\ UNCHANGED stageFrame

TitleEqualModelsStage ==
    /\ stage = 8
    /\ new_data' = title_equal_models(new_data)
    /\ stage' = 9
    /\ UNCHANGED stageFrame

\* clean_older_than_3_days: an exception of read_json leaves apply_filters
CleanOlderThan3Days ==
    /\ stage = 9
    /\ LET r == clean_older_than_3_days(new_data, history, Today)
       IN  IF r.raised = "none"
           THEN new_data' = r.data /\ stage' = 10 /\ UNCHANGED ferr
           ELSE new_data' = <<>> /\ stage' = 0 /\ ferr' = r.raised
    /\ UNCHANGED <<daily, filtered, history, dedupVars, applied>>
    /\ UNCHANGED <<schedVars, inst, callVars>>

SetPromoLinks ==
    /\ stage = 10
    /\ new_data' = set_promo_links(new_data)
    /\ stage' = 11
    /\ UNCHANGED stageFrame

\* apply_filters line 73: write_json(filtered_data, set_filtered())
WriteFiltered ==
    /\ stage = 11
    /\ filtered' = write_json(new_data, filtered)
    /\ stage' = 0
    /\ new_data' = <<>>
    /\ applied' = TRUE
    /\ UNCHANGED <<daily, history, dedupVars, ferr>>
    /\ UNCHANGED <<schedVars, inst, callVars>>

-----------------------------------------------------------------------------
(* Single calls of the filter functions on a list of records *)

\* 3. TitleFilters.clean_duplicates as one call: the loops of lines 384-402
RECURSIVE DupPass(_, _, _, _, _)
DupPass(data, i, j, keep, rules) ==
    IF j > Len(data)
    THEN IF i + 1 >= Len(data) THEN keep
         ELSE DupPass(data, i + 1, i + 2, keep, rules)
    ELSE LET c == Compare(data, i, j, keep, rules)
         IN  DupPass(data, i, j + 1, c.keep, c.rules)

clean_duplicates(data) ==
    Kept(data, DupPass(data, 1, 2, [k \in 1..Len(data) |-> TRUE], SiteRules))

\* Filters.ordered_filters: the exception that ends it and the list returned
ordered_filters(data, hist, today) ==
    LET d2 == clean_empty_image(clean_empty_titles(data))
        d4 == containing_words(clean_duplicates(d2))
        d6 == model_in_title(replace_symb_title(d4))
        d8 == title_equal_models(model_in_models(d6))
        r  == clean_older_than_3_days(d8, hist, today)
    IN  IF r.raised # "none" THEN r
        ELSE [raised |-> "none", data |-> set_promo_links(r.data)]

\* the records a list may hold: those of the scrapers, a banned word as a
\* whole word, a date that does not parse, a banned word inside a longer
\* word, a banned word between punctuation
StagePool ==
    Pool \cup
    { Rec(<<"site2">>, <<"date", Today>>, <<T_banned>>, None, <<"l7">>, <<"img">>),
      Rec(<<"site2">>, <<"text">>, <<T_kim>>, <<T_kim>>, <<"l9">>, <<"img">>),
      Rec(<<"site2">>, <<"date", Today>>, <<<<"x", "W", "O", "R", "D", "1">>>>,
          None, <<"l11">>, <<"img">>),
      Rec(<<"site3">>, <<"date", Today>>,
          <<<<"a", "-", "w", "o", "r", "d", "2", ".">>>>, None, <<"l12">>,
          <<"img">>),
      Rec(<<"site2">>, <<"date", Today>>, <<<<"w", "o", "-", "r", "d", "2">>>>,
          None, <<"l13">>, <<"img">>) }

CallInit ==
    /\ SchedIdle
    /\ FilterIdle
    /\ history \in Histories
    /\ fin \in UNION {[1..n -> StagePool] : n \in 0..MaxBatch}
    /\ fop = "none"
    /\ fout = <<>>
    /\ lk = <<>>
    /\ holder = 0

\* containing_words(fin): title.lower() on a None title raises
CallContainingWords ==
    /\ fop = "none"
    /\ fop' = "containing_words"
    /\ fout' = IF \E k \in 1..Len(fin) : fin[k].Title = None
               THEN [raised |-> "AttributeError", data |-> <<>>]
               ELSE [raised |-> "none", data |-> containing_words(fin)]
    /\ UNCHANGED <<schedVars, inst, filterVars, fin, lk, holder>>

\* set_promo_links(fin)
CallSetPromoLinks ==
    /\ fop = "none"
    /\ fop' = "set_promo_links"
    /\ fout' = [raised |-> "none", data |-> set_promo_links(fin)]
    /\ UNCHANGED <<schedVars, inst, filterVars, fin, lk, holder>>

\* ordered_filters(fin)
CallOrderedFilters ==
    /\ fop = "none"
    /\ fop' = "ordered_filters"
    /\ fout' = ordered_filters(fin, history, Today)
    /\ UNCHANGED <<schedVars, inst, filterVars, fin, lk, holder>>

-----------------------------------------------------------------------------
(* Jsons.lock_json(file_path, operation): two callers and one lock file *)

MaxAttempts == 5
MaxCalls == 2

\* what the actions of lock_json leave alone
lockFrame == <<schedVars, inst, filterVars, history, fin, fop, fout>>

LockInit ==
    /\ SchedIdle
    /\ FilterIdle
    /\ history = <<>>
    /\ fin = <<>>
    /\ fop = "none"
    /\ fout = <<>>
    /\ lk = [p \in Instances |-> [pc |-> "idle", attempt |-> 0, ops |-> 0, calls |-> 0]]
    /\ holder = 0

\* lines 603-606: a call starts with attempt = 0
LockCall(p) ==
    /\ lk[p].pc \in {"idle", "returned", "raised", "failed"}
    /\ lk[p].calls < MaxCalls
    /\ lk' = [lk EXCEPT ![p] = [pc |-> "try", attempt |-> 0, ops |-> 0,
                                 calls |-> lk[p].calls + 1]]
    /\ UNCHANGED <<holder, lockFrame>>

\* line 609: "with lock" acquires the free lock
Acquire(p) ==
    /\ lk[p].pc = "try"
    /\ holder = 0
    /\ holder' = p
    /\ lk' = [lk EXCEPT ![p].pc = "held"]
    /\ UNCHANGED lockFrame

\* line 610: operation() runs and returns or raises; leaving the with block
\* releases the lock and lock_json returns or lets the exception through
Operation(p) ==
    /\ lk[p].pc = "held"
    /\ \E outcome \in {"returned", "raised"} :
           lk' = [lk EXCEPT ![p].pc = outcome, ![p].ops = lk[p].ops + 1]
    /\ holder' = 0
    /\ UNCHANGED lockFrame

\* the fifth timeout ends the call with operation() run all the same
LockTimeout_ThenRun(p) ==
    /\ lk[p].pc = "try"
    /\ holder \notin {0, p}
    /\ lk' = IF lk[p].attempt + 1 < MaxAttempts
              THEN [lk EXCEPT ![p].attempt = lk[p].attempt + 1]
              ELSE [lk EXCEPT ![p].attempt = lk[p].attempt + 1, ![p].pc = "returned",
                              ![p].ops = lk[p].ops + 1]
    /\ UNCHANGED <<holder, lockFrame>>

\* lines 611-616: the lock was held by the other caller for the 10 seconds
\* of the timeout; attempt += 1, and after the fifth the loop ends and
\* lock_json prints the failure and returns None
LockTimeout(p) ==
    /\ lk[p].pc = "try"
    /\ holder \notin {0, p}
    /\ lk' = IF lk[p].attempt + 1 < MaxAttempts
              THEN [lk EXCEPT ![p].attempt = lk[p].attempt + 1]
              ELSE [lk EXCEPT ![p].attempt = lk[p].attempt + 1, ![p].pc = "failed"]
    /\ UNCHANGED <<holder, lockFrame>>

-----------------------------------------------------------------------------
(* The specifications *)

Init == SchedInit
Next == SchedNext
Spec == Init /\ [][Next]_vars

ConcNext ==
    \/ \E p \in Instances : ConcDo(p)
    \/ \E p \in Instances : ConcRunAndRead(p)
    \/ \E p \in Instances : ConcWrite(p)
    \/ ConcTick

SpecConc == ConcInit /\ [][ConcNext]_vars

FilterNext ==
    \/ \E r \in Pool : Scrape(r)
    \/ ApplyFilters
    \/ CleanEmptyTitles
    \/ CleanEmptyImage
    \/ DupEnter
    \/ DupCompare
    \/ DupReturn
    \/ ContainingWords
    \/ ReplaceSymbTitle
    \/ ModelInTitle
    \/ ModelInModels
    \/ TitleEqualModelsStage
    \/ CleanOlderThan3Days
    \/ SetPromoLinks
    \/ WriteFiltered

SpecFilter == FilterInit /\ [][FilterNext]_vars

CallNext ==
    \/ CallContainingWords
    \/ CallSetPromoLinks
    \/ CallOrderedFilters

SpecCall == CallInit /\ [][CallNext]_vars

LockNext ==
    \/ \E p \in Instances : LockCall(p)
    \/ \E p \in Instances : Acquire(p)
    \/ \E p \in Instances : Operation(p)
    \/ \E p \in Instances : LockTimeout(p)
SpecLock == LockInit /\ [][LockNext]_vars

-----------------------------------------------------------------------------
(* Claims about the scheduler, checked under Spec *)

Last(q) == q[Len(q)]

\* C1: a job that do() registers while the state file holds no entry for its
\* id has a next_run strictly later than the clock at that moment. (The
\* clock does not move while the process registers its jobs.)
C1_FreshJobNotDue ==
    pc = "setup" =>
        \A i \in 1..Len(jobs) :
            load_job_data(jobs[i].job_id, file) = None
                => jobs[i].next_run[1] > now

\* C3: when the action of a due job raises during a sweep, the sweep goes on
\* to the next job and the process stays alive.
C3_SweepSurvivesJobError ==
    [][(pc = "sweep" /\ raised' = "job_func") => (pc' = "sweep" /\ idx' = idx + 1)]_vars

\* C4: when save_data() returns after reading a parsable state file, the file
\* holds the merge by id of what was read and the in-memory jobs: each id in
\* memory once, with that job's to_dict(); each entry read whose id is not in
\* memory, unchanged; and nothing else.
C4_SaveDataMerges ==
    (pc = "saved" /\ existing_data # None) =>
        LET old == existing_data[1]
            new == file.jobs
        IN  /\ file.state = "ok"
            /\ \A i \in 1..Len(jobs) :
                   /\ Cardinality({k \in 1..Len(new) : new[k].id = jobs[i].job_id}) = 1
                   /\ \E k \in 1..Len(new) : new[k] = to_dict(jobs[i])
            /\ \A k \in 1..Len(old) :
                   old[k].id \notin JobIds(jobs) => \E m \in 1..Len(new) : new[m] = old[k]
            /\ \A m \in 1..Len(new) :
                   new[m].id \notin JobIds(jobs) => \E k \in 1..Len(old) : old[k] = new[m]

\* C4 witness: a save has returned that replaced the entry of a job in memory
\* and kept the entry of a job that is not in memory.
C4_Witness ==
    /\ pc = "saved"
    /\ existing_data # None
    /\ \E k \in 1..Len(existing_data[1]) :
           existing_data[1][k].id \notin JobIds(jobs)
    /\ \E k \in 1..Len(existing_data[1]), i \in 1..Len(jobs) :
           /\ existing_data[1][k].id = jobs[i].job_id
           /\ existing_data[1][k] # to_dict(jobs[i])

\* The configurations the scheduler is meant to accept: unit days, weeks or
\* hours (a singular property only with interval 1), weeks with a day of the
\* week that exists, at() not called or called with HH:MM; with or without
\* with_id().
ValidChain(c) ==
    /\ c.prop \in {"day", "days", "week", "weeks", "hour", "hours"}
    /\ (c.prop \in Singular => c.interval = 1)
    /\ (c.prop \in {"week", "weeks"} =>
            /\ c.on # <<>>
            /\ (c.on[1][1] = "str" => WeekdayIndex(Lower(c.on[1][2])) # <<>>))
    /\ (c.at # <<>> => StrptimeHM(c.at[1]).ok)

\* C6: do() on a valid configuration appends exactly one job: when the state
\* file has an entry for the id, the job reconstructed from it (next_run,
\* last_run, interval, unit, at_time, day_of_week as persisted); otherwise the
\* freshly built job.
C6_DoRegistersOneJob ==
    [][\A c \in Chains :
          (ValidChain(c) /\ Do(c)) =>
              LET fresh == Build(c).job
                  data  == load_job_data(fresh.job_id, file)
                  job   == Last(jobs')
              IN  /\ Len(jobs') = Len(jobs) + 1
                  /\ IF data # None
                     THEN /\ to_dict(job).next_run = data[1].next_run
                          /\ to_dict(job).last_run = data[1].last_run
                          /\ job.interval = data[1].interval
                          /\ job.unit = data[1].unit
                          /\ job.at_time = data[1].at_time
                          /\ job.day_of_week = data[1].day_of_week
                     ELSE /\ job.job_id = fresh.job_id
                          /\ job.interval = fresh.interval
                          /\ job.unit = fresh.unit
                          /\ job.at_time = fresh.at_time
                          /\ job.day_of_week = fresh.day_of_week
                          /\ job.last_run = None]_vars

\* C7: a sweep visits every registered job: when the sweep is over, no job
\* that was due at the sweep's current time is left unvisited.
C7_SweepVisitsEveryDueJob ==
    (pc \in {"sleep", "dead"} /\ raised \in {"none", "job_func"}) =>
        \A k \in 1..Len(jobs) : (k > idx /\ idx > 0) => ~Due(jobs[k], current_time)

\* C8: a shortage of disk space never leaves the state file cut short: the
\* file holds the complete previous job list or the complete merged one.
C8_FileNeverTruncated ==
    file.state # "truncated"

-----------------------------------------------------------------------------
(* Claims about two scheduler processes, checked under SpecConc *)

\* C5: with two processes on one state file holding different job ids,
\* whenever no save is in progress the file holds, for every job either
\* process has run and saved, that job's latest to_dict().
C5_NoSaveClobbersTheOther ==
    (\A p \in DOMAIN inst : inst[p].pc = "idle") =>
        \A p \in DOMAIN inst : \A i \in 1..Len(inst[p].jobs) :
            inst[p].jobs[i].last_run # None =>
                /\ file.state = "ok"
                /\ \E k \in 1..Len(file.jobs) :
                       file.jobs[k] = to_dict(inst[p].jobs[i])

-----------------------------------------------------------------------------
(* Claims about the filter pipeline, checked under SpecFilter *)

Range(q) == {q[k] : k \in 1..Len(q)}

\* C2: once apply_filters() has returned and nothing has been scraped since,
\* no later step (a second call and its write_json) changes the filtered
\* store.
C2_SecondCallChangesNothing ==
    [][applied => filtered' = filtered]_vars

\* C9: in clean_duplicates, a comparison of records i < j with similarity
\* >= 99 whose sites have no rule in either order drops j and learns the
\* rule (site_i, site_j) -> site_j; a comparison whose sites have a learned
\* rule, in either order, drops the record of the site the rule names and
\* leaves the rules alone; every call starts from the two built-in rules.
C9_LearnedRule ==
    [][/\ (stage = 3 /\ di = 0) => site_rules' = SiteRules
       /\ (/\ stage = 3 /\ di >= 1 /\ dj <= Len(new_data)
           /\ Ratio(new_data[di].Title, new_data[dj].Title) >= DuplicateRatio) =>
              LET site_i == new_data[di].Site
                  site_j == new_data[dj].Site
                  rules  == {e \in site_rules :
                                e.pair \in {<<site_i, site_j>>, <<site_j, site_i>>}}
              IN  IF rules = {}
                  THEN /\ rows_to_keep' = [rows_to_keep EXCEPT ![dj] = FALSE]
                       /\ site_rules' = site_rules
                              \cup {[pair |-> <<site_i, site_j>>, drop |-> site_j]}
                  ELSE \A e \in rules \ SiteRules :
                           /\ site_rules' = site_rules
                           /\ e.drop = site_i => ~rows_to_keep'[di]
                           /\ e.drop # site_i => ~rows_to_keep'[dj]]_vars

\* the comparison of i and j is over in the pass under way
Compared(i, j) == i < di \/ (i = di /\ j < dj)

\* C9 witness: in one pass a rule was learned for two different sites and two
\* comparisons of records of those sites are over.
C9_Witness ==
    /\ stage = 3
    /\ di >= 1
    /\ \E e \in site_rules \ SiteRules :
           /\ e.pair[1] # e.pair[2]
           /\ Cardinality({x \in (1..Len(new_data)) \X (1..Len(new_data)) :
                  /\ x[1] < x[2]
                  /\ Compared(x[1], x[2])
                  /\ Ratio(new_data[x[1]].Title, new_data[x[2]].Title)
                         >= DuplicateRatio
                  /\ e.pair \in {<<new_data[x[1]].Site, new_data[x[2]].Site>>,
                                  <<new_data[x[2]].Site, new_data[x[1]].Site>>}})
                >= 2

\* a Date that parses, d days before today
DaysOld(r) == Today - DateObj(r.Date)[1]

\* C10: clean_older_than_3_days returns a list without the records dated 4
\* or more days before today and with every record dated today .. 3 days
\* before today whose Title no title of the five history files resembles
\* (ratio >= 90), whether or not those files exist and hold anything.
C10_AgeFilter ==
    [][stage = 9 =>
          /\ stage' = 10
          /\ \A k \in 1..Len(new_data) :
                 DateObj(new_data[k].Date) # None =>
                     /\ DaysOld(new_data[k]) >= 4 =>
                            new_data[k] \notin Range(new_data')
                     /\ (/\ DaysOld(new_data[k]) \in 0..MaxAgeDays
                         /\ ~SimilarUploaded(new_data[k], history)) =>
                            new_data[k] \in Range(new_data')]_vars

-----------------------------------------------------------------------------
(* Claims about single calls of the filter functions, checked under SpecCall *)

\* word stands in s as a whole word: at a place where no word character
\* stands right before it and none right after it
WholeWord(s, word) ==
    \E p \in 1..Len(s) :
        /\ StartsAt(s, word, p)
        /\ p = 1 \/ s[p - 1] \notin WordChars
        /\ p + Len(word) > Len(s) \/ s[p + Len(word)] \notin WordChars

\* C11: containing_words returns, in order, exactly the records whose
\* lower-cased Title holds no banned word as a whole word; a banned word
\* inside a longer word does not count, capitals in the title do not matter.
C11_BannedWholeWords ==
    (fop = "containing_words" /\ fout.raised = "none") =>
        fout.data = SelectSeq(fin, LAMBDA r :
                        ~\E word \in FilterWords : WholeWord(lower(r.Title[1]), word))

\* C11 witness: a call kept a title that holds a banned word inside a longer
\* word and dropped a title that holds one, in capitals, as a whole word.
C11_Witness ==
    /\ fop = "containing_words"
    /\ fout.raised = "none"
    /\ \E k \in 1..Len(fin) :
           /\ fin[k] \in Range(fout.data)
           /\ \E word \in FilterWords :
                  \E p \in 1..Len(fin[k].Title[1]) :
                      StartsAt(lower(fin[k].Title[1]), word, p)
    /\ \E k \in 1..Len(fin) :
           /\ fin[k] \notin Range(fout.data)
           /\ fin[k].Title[1] # lower(fin[k].Title[1])

\* C12: set_promo_links returns the records it was given, in order, changed
\* in nothing but the promo field; that field is the link of the table entry
\* whose key equals the record's Site up to the case of the letters, and null
\* when the table has no such entry.
C12_PromoBySite ==
    fop = "set_promo_links" =>
        /\ fout.raised = "none"
        /\ Len(fout.data) = Len(fin)
        /\ \A i \in 1..Len(fin) :
               LET same == {k \in 1..Len(PromoLinks) :
                               lower(PromoLinks[k].site) = lower(SiteChars(fin[i].Site))}
               IN  /\ [fout.data[i] EXCEPT !.Promo = fin[i].Promo] = fin[i]
                   /\ same = {} => fout.data[i].Promo = None
                   /\ \A k \in same : fout.data[i].Promo = <<"url", PromoLinks[k].link>>

\* C12 witness: one call gave the link of the entry written "Site4" to a
\* record of site "site4" and null to a record of a site without an entry.
C12_Witness ==
    /\ fop = "set_promo_links"
    /\ \E i, j \in 1..Len(fin) :
           /\ fin[i].Site = <<"site4">>
           /\ fout.data[i].Promo = <<"url", "promo4">>
           /\ fin[j].Site = <<"site2">>
           /\ fout.data[j].Promo = None

\* record i of the batch is one the pipeline has no reason to drop
ValidRecord(batch, i, hist) ==
    LET r == batch[i]
    IN  /\ r.Title # None
        /\ r.Image # None
        /\ r.Date = <<"date", Today>>
        /\ ~\E word \in FilterWords : WholeWord(lower(r.Title[1]), word)
        /\ ~\E j \in 1..Len(batch) :
               j # i /\ batch[j].Title # None /\ Ratio(r.Title, batch[j].Title) >= DuplicateRatio
        /\ ~SimilarUploaded(r, hist)

\* C13: a call of ordered_filters returns a list without null-Title records
\* that holds every valid record of its input; for a null-Title record
\* followed by a valid one it returns the valid record alone.
C13_OrderedFilters ==
    fop = "ordered_filters" =>
        /\ fout.raised = "none"
        /\ \A k \in 1..Len(fout.data) : fout.data[k].Title # None
        /\ \A i \in 1..Len(fin) :
               ValidRecord(fin, i, history) =>
                   \E k \in 1..Len(fout.data) : fout.data[k].Link = fin[i].Link
        /\ (Len(fin) = 2 /\ fin[1].Title = None /\ ValidRecord(fin, 2, history)) =>
               (Len(fout.data) = 1 /\ fout.data[1].Link = fin[2].Link)

\* the exception do() is expected to raise for a configuration that is not
\* valid ("none": the configuration is none of the invalid ones listed)
ExpectedError(c) ==
    IF c.prop \in Singular /\ c.interval # 1 THEN "IntervalError"
    ELSE IF c.prop \in {"second", "seconds", "minute", "minutes", ""}
         THEN "calculate_next_run"
    ELSE IF c.prop \in {"week", "weeks"} /\ c.on = <<>> THEN "calculate_next_run"
    ELSE IF /\ c.prop \in {"week", "weeks"}
            /\ c.on[1][1] = "str"
            /\ WeekdayIndex(Lower(c.on[1][2])) = <<>> THEN "calculate_next_run"
    ELSE IF c.prop \in {"day", "days"} /\ c.at # <<>> /\ ~StrptimeHM(c.at[1]).ok
         THEN "calculate_next_run"
    ELSE "none"

\* C14: a chain with a singular unit and an interval other than 1 ends in
\* IntervalError; do() on a chain with an unsupported or unset unit, with weeks
\* and no or an unknown day of the week, or with days and an at_time that is
\* not HH:MM raises out of calculate_next_run; in each case scheduler.jobs is
\* left as it was.
C14_InvalidNeverRegistered ==
    [][pc = "setup" =>
          \A c \in Chains :
              (ExpectedError(c) # "none" /\ Do(c)) =>
                  /\ jobs' = jobs
                  /\ pc' = "dead"
                  /\ raised' = ExpectedError(c)]_vars

\* C14 witness: after one job was registered, a chain with a singular unit and
\* interval 2 raised IntervalError and the list still holds the one job.
C14_Witness ==
    /\ pc = "dead"
    /\ raised = "IntervalError"
    /\ Len(jobs) = 1

\* C15: do() on a valid chain without with_id() appends one job whose job_id
\* is a string; on a chain with with_id(x), the job it appends has job_id x.
C15_GeneratedId ==
    [][\A c \in Chains :
          (ValidChain(c) /\ Do(c)) =>
              IF c.id = <<>>
              THEN /\ Len(jobs') = Len(jobs) + 1
                   /\ IsStr(Last(jobs').job_id)
              ELSE Len(jobs') = Len(jobs) + 1 => Last(jobs').job_id = c.id[1]]_vars

\* the filtered store represents a daily record: by its link, and by its
\* Title when the record has no link
Represented(item, store) ==
    IF item.Link # None
    THEN \E k \in 1..Len(store) : store[k].Link = item.Link
    ELSE \E k \in 1..Len(store) : store[k].Title = item.Title

\* C16: a call of apply_filters hands ordered_filters exactly the daily
\* records the filtered store does not represent, and hands it nothing when
\* there is none.
C16_NewByLinkOrTitle ==
    [][ApplyFilters =>
          LET unseen == SelectSeq(daily, LAMBDA item : ~Represented(item, filtered))
          IN  IF unseen = <<>>
              THEN stage' = 0
              ELSE stage' = 1 /\ new_data' = unseen]_vars

\* C17: when the filtered store represents every record of the daily store, or
\* the daily store is empty, a call of apply_filters starts no stage and
\* leaves the filtered store as it is.
C17_NothingNewNoWrite ==
    [][(ApplyFilters /\ \A k \in 1..Len(daily) : Represented(daily[k], filtered)) =>
          (stage' = 0 /\ filtered' = filtered)]_vars

\* the times caller p has tried to acquire the lock in its current call
Tries(p) == lk[p].attempt + IF lk[p].pc \in {"held", "returned", "raised"} THEN 1 ELSE 0

C19_UnreadableFileNotRewritten ==
    [][\A d \in Durations, free \in DiskLevels :
          (file.state = "truncated" /\ RunJob(d, free) /\ RunResult(jobs[idx], now + d).ok) =>
              (pc' # "dead" /\ file' = file)]_vars

\* next_run of a days job at time t: today's date with at_time, or with the
\* time of day of t when at_time is unset; interval days later when last_run
\* is set and t is past that instant
ExpectedDays(job, t) ==
    LET first == DateOf(t) + (IF Truthy(job.at_time) THEN job.at_time[2]
                              ELSE t % HoursPerDay)
    IN  IF job.last_run # None /\ t > first
        THEN first + HoursPerDay * job.interval
        ELSE first

\* C20: do() on a valid days chain with nothing persisted for its id
\* registers the job with the next_run above, at() called or not; run() of
\* a days job sets next_run the same way from the new last_run.
C20_DaysNextRun ==
    [][/\ \A c \in Chains :
             (/\ c.prop \in {"day", "days"}
              /\ ValidChain(c)
              /\ Do(c)
              /\ load_job_data(c.id[1], file) = None) =>
                 /\ Len(jobs') = Len(jobs) + 1
                 /\ Last(jobs').next_run = <<ExpectedDays(Build(c).job, now)>>
       /\ \A d \in Durations, free \in DiskLevels :
             (RunJob(d, free) /\ jobs[idx].unit = "days") =>
                 /\ pc' # "dead"
                 /\ jobs'[idx].next_run =
                        <<ExpectedDays([jobs[idx] EXCEPT !.last_run = <<now + d>>],
                                       now + d)>>]_vars

\* a step of run_pending in which the action of job idx returned and run()
\* went on to last_run and calculate_next_run: now' is the time it returned
ActionReturned ==
    /\ pc = "sweep"
    /\ \/ pc' \in {"saved", "popup"}
       \/ pc' = "dead" /\ raised' = "calculate_next_run"

\* the weekday a weekly job asks for, 0 = Monday
AskedWeekday(job) ==
    IF job.day_of_week[1] = "int" THEN job.day_of_week[2]
    ELSE WeekdayIndex(Lower(job.day_of_week[2]))[1]

\* next_run of a weeks job at time t: t plus the days to the asked weekday,
\* interval weeks later when that instant is before t
ExpectedWeeks(job, t) ==
    LET first == t + ((AskedWeekday(job) - Weekday(t)) % DaysPerWeek) * HoursPerDay
    IN  IF first < t THEN first + DaysPerWeek * HoursPerDay * job.interval ELSE first

ExpectedHours(job, t) ==
    LET first == (IF job.last_run = None THEN t ELSE job.last_run[1]) + job.interval
    IN  IF first > t THEN first ELSE first + HoursPerDay

\* C22: do() on an hours chain with an id and nothing persisted for it
\* registers the job with the next_run above; run() of an hours job sets
\* next_run the same way from the new last_run.
C22_HoursNextRun ==
    [][/\ pc = "setup" =>
             \A c \in Chains :
                 (/\ c.prop \in {"hour", "hours"}
                  /\ c.id # <<>>
                  /\ ValidChain(c)
                  /\ Do(c)
                  /\ load_job_data(c.id[1], file) = None) =>
                     /\ Len(jobs') = Len(jobs) + 1
                     /\ Last(jobs').next_run = <<ExpectedHours(Build(c).job, now)>>
       /\ (ActionReturned /\ jobs[idx].unit = "hours") =>
             /\ pc' # "dead"
             /\ jobs'[idx].next_run =
                    <<ExpectedHours([jobs[idx] EXCEPT !.last_run = <<now'>>], now')>>]_vars

\* C22 witness: an hours job with interval 0 has run and its next_run is one
\* day after its last_run.
C22_Witness ==
    \E k \in 1..Len(jobs) :
        /\ jobs[k].unit = "hours"
        /\ jobs[k].interval = 0
        /\ jobs[k].last_run # None
        /\ jobs[k].next_run = <<jobs[k].last_run[1] + HoursPerDay>>

SubList(out, inp) ==
    \E f \in [1..Len(out) -> 1..Len(inp)] :
        /\ \A k \in 1..Len(out) : out[k] = inp[f[k]]
        /\ \A k, m \in 1..Len(out) : k < m => f[k] < f[m]

\* the step in which clean_duplicates returns: new_data is its input,
\* new_data' its output
DuplicatesReturned == stage = 3 /\ stage' = 4

\* C24: the list clean_duplicates returns is a sub-list of its input in the
\* same order, and no two of its records have titles of similarity >= 99.
C24_NoDuplicatesLeft ==
    [][DuplicatesReturned =>
          /\ SubList(new_data', new_data)
          /\ \A k, m \in 1..Len(new_data') :
                 k < m => Ratio(new_data'[k].Title, new_data'[m].Title) < DuplicateRatio]_vars

\* C24 witness: clean_duplicates has returned two of three records, the
\* dropped one a duplicate of a kept one.
C24_Witness ==
    /\ stage = 4
    /\ Len(new_data) = 2
    /\ Len(clean_empty_image(clean_empty_titles(NewData(daily, filtered)))) = 3
    /\ \E r \in Range(daily) :
           /\ r \notin Range(new_data)
           /\ r.Title # None
           /\ \E k \in 1..Len(new_data) :
                  Ratio(r.Title, new_data[k].Title) >= DuplicateRatio

\* C25: when clean_duplicates compares two records with titles of similarity
\* >= 99 whose sites, in either order, are a pair of the priority table, the
\* record of the site the table names loses its flag and the flag of the
\* other record is left as it was.
C25_ExplicitRule ==
    [][(stage = 3 /\ di >= 1 /\ dj <= Len(new_data)) =>
          \A e \in SiteRules :
              (/\ e.pair \in {<<new_data[di].Site, new_data[dj].Site>>,
                               <<new_data[dj].Site, new_data[di].Site>>}
               /\ Ratio(new_data[di].Title, new_data[dj].Title) >= DuplicateRatio) =>
                  LET loser  == IF new_data[di].Site = e.drop THEN di ELSE dj
                      winner == IF new_data[di].Site = e.drop THEN dj ELSE di
                  IN  /\ rows_to_keep'[loser] = FALSE
                      /\ rows_to_keep'[winner] = rows_to_keep[winner]]_vars

\* C25 witness: a site1 record that comes before its site2 duplicate has
\* lost its flag in their comparison and the site2 record has kept its own.
C25_Witness ==
    /\ stage = 3
    /\ di >= 1
    /\ \E i, j \in 1..Len(new_data) :
           /\ i < j
           /\ Compared(i, j)
           /\ new_data[i].Site = <<"site1">>
           /\ new_data[j].Site = <<"site2">>
           /\ Ratio(new_data[i].Title, new_data[j].Title) >= DuplicateRatio
           /\ ~rows_to_keep[i]
           /\ rows_to_keep[j]

C27_NotDueAfterRun ==
    [][(ActionReturned /\ pc' # "dead") =>
          /\ jobs'[idx].next_run[1] > jobs'[idx].last_run[1]
          /\ ~Due(jobs'[idx], now')]_vars

\* similarity >= 99 is an equivalence on the titles of the batch
SimilarityIsEquivalence(batch) ==
    LET sim(a, b) == Ratio(batch[a].Title, batch[b].Title) >= DuplicateRatio
        n == 1..Len(batch)
    IN  /\ \A a \in n : sim(a, a)
        /\ \A a, b \in n : sim(a, b) => sim(b, a)
        /\ \A a, b, c \in n : (sim(a, b) /\ sim(b, c)) => sim(a, c)

\* C28: when similarity >= 99 is an equivalence on its input, the list
\* clean_duplicates returns holds, for every record of the input, a record
\* whose title has similarity >= 99 with that record's title.
C28_GroupSurvives ==
    [][(DuplicatesReturned /\ SimilarityIsEquivalence(new_data)) =>
          \A i \in 1..Len(new_data) :
              \E k \in 1..Len(new_data') :
                  Ratio(new_data[i].Title, new_data'[k].Title) >= DuplicateRatio]_vars

\* C29: no record that ordered_filters returns has a Title that holds a
\* banned word as a whole word.
C29_NoBannedWordReturned ==
    (fop = "ordered_filters" /\ fout.raised = "none") =>
        \A k \in 1..Len(fout.data) :
            ~\E word \in FilterWords : WholeWord(lower(fout.data[k].Title[1]), word)

\* no two records of the store share a non-empty 'Link for video'
KeyedStore(store) ==
    \A a, b \in 1..Len(store) :
        (a < b /\ store[a].Link # None) => store[a].Link # store[b].Link

\* every record that left the store was replaced by a new record with its
\* link or, when it has none, with its Title
OnlyReplaced(before, after) ==
    \A old \in Range(before) \ Range(after) :
        \E new \in Range(after) \ Range(before) :
            IF old.Link # None THEN new.Link = old.Link ELSE new.Title = old.Title

\* C30: after every write_json the daily store and the filtered store, empty
\* at the start, hold no two records with the same non-empty link, and a
\* record leaves a store only by being replaced by the new record that
\* matches it.
C30_StoreStaysKeyed ==
    [][/\ KeyedStore(daily') /\ KeyedStore(filtered')
       /\ OnlyReplaced(daily, daily') /\ OnlyReplaced(filtered, filtered')]_vars
====
